---- MODULE Spec2Model ----
(***************************************************************************)
(* Model of Coinmarketcap.py: the CoinMarketCap client.                    *)
(*                                                                         *)
(* Python values are modelled as follows.                                  *)
(*   None              [none |-> TRUE]                                     *)
(*   int               [num |-> n]           (as a table or dict cell)     *)
(*   str               [str |-> <<c1, ..>>]  a sequence of characters      *)
(*   float NaN         [nan |-> TRUE]        (pandas fills missing cells)  *)
(*   dict              a function from its keys                            *)
(*   list              a sequence                                          *)
(*   DataFrame         [columns |-> set of labels, rows |-> sequence of    *)
(*                      functions from the labels to cells]                *)
(*   an exception      [raised |-> name]                                   *)
(*   a returned value  [returned |-> value]                                *)
(***************************************************************************)
EXTENDS Integers, Sequences, FiniteSets, TLC

VARIABLES
    self,       \* the CoinMarketCap instance: its attributes
    sessions,   \* the requests.Session objects created so far (index = identity)
    env,        \* the process environment read by __init__: time zone, clock reads
    pc,         \* position of the single thread of control
    frame,      \* the endpoint call in progress: method, endpoint, params, retry
    attempt,    \* local variable attempt of __get_response
    response,   \* local variable response of __get_response
    trace,      \* GETs issued and sleeps taken by the call in progress, in order
    data,       \* value returned by __get_response to the endpoint method
    result,     \* outcome of the call in progress, as seen by the caller
    stdout,     \* what the call in progress has printed
    calls       \* number of calls the caller has seen end, counted up to MaxCalls

vars == <<self, sessions, env, pc, frame, attempt, response, trace, data, result, stdout, calls>>

----------------------------------------------------------------------------
(* Bounds of the model *)

\* largest retry budget passed to __get_response
MaxRetry == 2
\* the count of finished calls stops growing here (the calls themselves go on)
MaxCalls == 2
\* largest number of entries of a "quotes" list handed to a parser
MaxQuotes == 2

----------------------------------------------------------------------------
(* Python values *)

None == [none |-> TRUE]
NaN == [nan |-> TRUE]
Num(n) == [num |-> n]
Str(s) == [str |-> s]
IsStr(v) == DOMAIN v = {"str"}
Raised(e) == [raised |-> e]
Returned(v) == [returned |-> v]
IsRaised(r) == DOMAIN r = {"raised"}
IsReturned(r) == DOMAIN r = {"returned"}

----------------------------------------------------------------------------
(* Class attributes *)

PRODUCTION_BASE_URL == "https://pro-api.coinmarketcap.com"
SANDBOX_BASE_URL == "https://sandbox-api.coinmarketcap.com"
API_TYPE_MAP == [standard |-> 30, professional |-> 365]
class_default_historical_data_length == 29

\* defaults of the signatures
DefaultRetry == 1
DefaultTimeout == 10
\* time.sleep(5) in the retry loop
SleepSeconds == 5
\* the status the loop and the envelope extraction compare with
StatusOK == 200

----------------------------------------------------------------------------
(* Characters, numbers and their decimal notation *)

DigitChar == <<"0", "1", "2", "3", "4", "5", "6", "7", "8", "9">>
DigitVal(c) == (CHOOSE i \in 1..10 : DigitChar[i] = c) - 1

RECURSIVE ParseInt(_)
ParseInt(s) ==
    IF s = <<>> THEN 0
    ELSE 10 * ParseInt(SubSeq(s, 1, Len(s) - 1)) + DigitVal(s[Len(s)])

\* n in decimal, zero-padded on the left to at least width characters
RECURSIVE Pad(_, _)
Pad(n, width) ==
    IF n < 10 /\ width <= 1 THEN <<DigitChar[n + 1]>>
    ELSE Pad(n \div 10, width - 1) \o <<DigitChar[(n % 10) + 1]>>

----------------------------------------------------------------------------
(* datetime.date: the proleptic Gregorian calendar *)

SecondsPerDay == 24 * 60 * 60

\* date.toordinal, counted from 1970-01-01 = 0
toordinal(date) ==
    LET y == IF date.month <= 2 THEN date.year - 1 ELSE date.year
        era == y \div 400
        yoe == y - era * 400
        mp == IF date.month > 2 THEN date.month - 3 ELSE date.month + 9
        doy == (153 * mp + 2) \div 5 + date.day - 1
        doe == yoe * 365 + yoe \div 4 - yoe \div 100 + doy
    IN era * 146097 + doe - 719468

\* date.fromordinal
fromordinal(n) ==
    LET z == n + 719468
        era == z \div 146097
        doe == z - era * 146097
        yoe == (doe - doe \div 1460 + doe \div 36524 - doe \div 146096) \div 365
        doy == doe - (365 * yoe + yoe \div 4 - yoe \div 100)
        mp == (5 * doy + 2) \div 153
        d == doy - (153 * mp + 2) \div 5 + 1
        m == IF mp < 10 THEN mp + 3 ELSE mp - 9
        y == yoe + era * 400
    IN [year |-> IF m <= 2 THEN y + 1 ELSE y, month |-> m, day |-> d]

\* date - datetime.timedelta(days = n)
date_minus_days(date, n) == fromordinal(toordinal(date) - n)

\* str(date): the ISO form YYYY-MM-DD
date_str(date) ==
    Pad(date.year, 4) \o <<"-">> \o Pad(date.month, 2) \o <<"-">> \o Pad(date.day, 2)

\* time.strptime(s, '%Y-%m-%d'): a struct_time at 00:00:00 with tm_isdst = -1
strptime_ymd(s) ==
    [tm_year |-> ParseInt(SubSeq(s, 1, 4)),
     tm_mon |-> ParseInt(SubSeq(s, 6, 7)),
     tm_mday |-> ParseInt(SubSeq(s, 9, 10)),
     tm_hour |-> 0, tm_min |-> 0, tm_sec |-> 0, tm_isdst |-> -1]

----------------------------------------------------------------------------
(* The local time zone of the process *)

\* seconds east of UTC in force at the instant t (seconds since the epoch)
UtcOffsetAt(tz, t) ==
    IF tz.dst /\ tz.dst_from <= t /\ t < tz.dst_to THEN tz.std + 3600 ELSE tz.std

\* time.mktime: the instant whose local broken-down time is tm
mktime(tm, tz) ==
    LET local == toordinal([year |-> tm.tm_year, month |-> tm.tm_mon, day |-> tm.tm_mday])
                     * SecondsPerDay
                 + tm.tm_hour * 3600 + tm.tm_min * 60 + tm.tm_sec
        fits == {off \in {tz.std, tz.std + 3600} : UtcOffsetAt(tz, local - off) = off}
    IN IF fits = {} THEN local - tz.std
       ELSE local - (CHOOSE off \in fits : \A o \in fits : off >= o)

\* CoinMarketCap.convert_to_day_begin
convert_to_day_begin(date_time, tz) == mktime(strptime_ymd(date_str(date_time)), tz)

----------------------------------------------------------------------------
(* Timestamps *)

\* dateutil.parser.parse on an ISO 8601 string YYYY-MM-DDTHH:MM:SS[.fff]Z
dateutil_parse(s) ==
    [year |-> ParseInt(SubSeq(s, 1, 4)),
     month |-> ParseInt(SubSeq(s, 6, 7)),
     day |-> ParseInt(SubSeq(s, 9, 10)),
     hour |-> ParseInt(SubSeq(s, 12, 13)),
     minute |-> ParseInt(SubSeq(s, 15, 16)),
     second |-> ParseInt(SubSeq(s, 18, 19))]

IsDatetime(v) == DOMAIN v = {"year", "month", "day", "hour", "minute", "second"}

\* datetime.strftime for the four formats the client uses
strftime_d(dt) ==
    Pad(dt.year, 4) \o <<"-">> \o Pad(dt.month, 2) \o <<"-">> \o Pad(dt.day, 2)
strftime_h(dt) == strftime_d(dt) \o <<" ">> \o Pad(dt.hour, 2)
strftime_M(dt) == strftime_h(dt) \o <<":">> \o Pad(dt.minute, 2)
strftime_s(dt) == strftime_M(dt) \o <<":">> \o Pad(dt.second, 2)

\* CoinMarketCap.convert_datetime_precision
convert_datetime_precision(timestamp, time_interval) ==
    IF ~IsStr(timestamp) /\ ~IsDatetime(timestamp)
    THEN Raised("AttributeError")
    ELSE LET dt == IF IsStr(timestamp) THEN dateutil_parse(timestamp.str) ELSE timestamp
             params == [d |-> strftime_d(dt), h |-> strftime_h(dt),
                        M |-> strftime_M(dt), s |-> strftime_s(dt)]
         IN IF time_interval \in DOMAIN params
            THEN Returned(Str(params[time_interval]))
            ELSE Raised("ValueError")

----------------------------------------------------------------------------
(* pandas *)

\* pd.DataFrame.from_dict on a list of dicts: one row per dict, one column per
\* key of any dict, NaN where a dict lacks the key
DataFrame_from_dict(records) ==
    LET columns == UNION {DOMAIN records[i] : i \in 1..Len(records)}
    IN [columns |-> columns,
        rows |-> [i \in 1..Len(records) |->
                    [c \in columns |->
                        IF c \in DOMAIN records[i] THEN records[i][c] ELSE NaN]]]

----------------------------------------------------------------------------
(* The parsers *)

\* the dict built by one round of the for loop of a parser: first the time
\* field, then every item of quotes["quote"]["USD"], later keys overwriting
result_dict_of(quotes, time_key) ==
    LET usd == quotes.quote.USD
    IN [k \in {time_key} \cup DOMAIN usd |->
            IF k \in DOMAIN usd THEN usd[k] ELSE quotes[time_key]]

\* the first exception the for loop of a parser raises, if any
loop_error(quotes_list, time_key) ==
    LET bad(q) == \/ time_key \notin DOMAIN q
                  \/ "quote" \notin DOMAIN q
                  \/ "USD" \notin DOMAIN q.quote
    IN IF \E i \in 1..Len(quotes_list) : bad(quotes_list[i])
       THEN Raised("KeyError") ELSE None

\* CoinMarketCap.parse_quote_data
parse_quote_data(data_dict) ==
    IF data_dict = None THEN Raised("TypeError")
    ELSE IF "symbol" \notin DOMAIN data_dict \/ "quotes" \notin DOMAIN data_dict
    THEN Raised("KeyError")
    ELSE IF loop_error(data_dict.quotes, "timestamp") # None
    THEN loop_error(data_dict.quotes, "timestamp")
    ELSE
      LET quotes_list == data_dict.quotes
          res == [i \in 1..Len(quotes_list) |-> result_dict_of(quotes_list[i], "timestamp")]
          result_df == DataFrame_from_dict(res)
          applied == [i \in 1..Len(res) |->
                        convert_datetime_precision(result_df.rows[i]["timestamp"], "h")]
      IN IF "timestamp" \notin result_df.columns THEN Raised("KeyError")
         ELSE IF \E i \in 1..Len(res) : IsRaised(applied[i])
         THEN applied[CHOOSE i \in 1..Len(res) :
                        /\ IsRaised(applied[i])
                        /\ \A j \in 1..(i - 1) : ~IsRaised(applied[j])]
         ELSE Returned(
                [symbol |-> data_dict.symbol,
                 result_df |->
                    [result_df EXCEPT !.rows =
                        [i \in 1..Len(res) |->
                            [result_df.rows[i] EXCEPT !["timestamp"] = applied[i].returned]]]])

\* variant: a missing payload gives an empty table
parse_ohlcv_data_lenient(data_dict) ==
    IF data_dict = None \/ "quotes" \notin DOMAIN data_dict
    THEN Returned(DataFrame_from_dict(<<>>))
    ELSE IF loop_error(data_dict.quotes, "time_close") # None
    THEN loop_error(data_dict.quotes, "time_close")
    ELSE Returned(DataFrame_from_dict(
            [i \in 1..Len(data_dict.quotes) |->
                result_dict_of(data_dict.quotes[i], "time_close")]))

\* CoinMarketCap.parse_ohlcv_data
parse_ohlcv_data(data_dict) ==
    IF data_dict = None THEN Raised("TypeError")
    ELSE IF "quotes" \notin DOMAIN data_dict THEN Raised("KeyError")
    ELSE IF loop_error(data_dict.quotes, "time_close") # None
    THEN loop_error(data_dict.quotes, "time_close")
    ELSE
      LET quotes_list == data_dict.quotes
          res == [i \in 1..Len(quotes_list) |-> result_dict_of(quotes_list[i], "time_close")]
      IN Returned(DataFrame_from_dict(res))

----------------------------------------------------------------------------
(* The environment of the process: time zone, clock, remote service *)

\* the instant 01:00 UTC of a date, when European time zones switch
SwitchInstant(y, m, d) == toordinal([year |-> y, month |-> m, day |-> d]) * SecondsPerDay + 3600

\* Europe/Berlin in 2021 (summer time from 28 March to 31 October) and
\* Asia/Kolkata (no summer time)
TimeZones ==
    {[std |-> 3600, dst |-> TRUE,
      dst_from |-> SwitchInstant(2021, 3, 28), dst_to |-> SwitchInstant(2021, 10, 31)],
     [std |-> 19800, dst |-> FALSE, dst_from |-> 0, dst_to |-> 0]}

\* the dates datetime.date.today() may return to the first read of __init__
Todays == {[year |-> 2021, month |-> 4, day |-> 10], [year |-> 2021, month |-> 1, day |-> 15]}

ApiKeys == {"KEY"}
ApiTypes == {"standard", "professional", "enterprise"}
TickerIds == {"1"}
Currencies == {"USD", "EUR"}
\* explicit time_start / time_end arguments (None: use the default)
TimeArgs == {None, Num(1609459200), Num(1700000000)}

Faults == {"Timeout", "ConnectionError"}

TS1 == <<"2","0","2","1","-","0","1","-","0","1","T","0","0",":","0","0",":","0","0","Z">>
TS2 == <<"2","0","2","1","-","0","1","-","0","1","T","0","6",":","0","0",":","0","0","Z">>
TS3 == <<"2","0","2","0","-","1","2","-","3","1","T","1","8",":","3","0",":","5","9",
         ".","0","0","0","Z">>

\* values of the "quote" field of an entry of a "quotes" list
QuoteMaps ==
    {[USD |-> [price |-> Num(100)]],
     [USD |-> [price |-> Num(200), volume_24h |-> Num(5)]],
     [USD |-> [price |-> Num(100), timestamp |-> Str(TS3)]],
     [USD |-> [price |-> Num(100), time_close |-> Str(TS3)]],
     [EUR |-> [price |-> Num(90)]]}

QuoteEntries == {[timestamp |-> Str(ts), quote |-> q] : ts \in {TS1, TS2}, q \in QuoteMaps}
OhlcvEntries == {[time_close |-> Str(ts), quote |-> q] : ts \in {TS1, TS2}, q \in QuoteMaps}

SeqsUpTo(S, n) == UNION {[1..k -> S] : k \in 0..n}

\* payloads a parser may be handed
QuotePayloads ==
    {None} \cup {[symbol |-> "BTC", quotes |-> qs] : qs \in SeqsUpTo(QuoteEntries, MaxQuotes)}
OhlcvPayloads ==
    {None} \cup {[symbol |-> "BTC", quotes |-> qs] : qs \in SeqsUpTo(OhlcvEntries, MaxQuotes)}

QE(ts, q) == [timestamp |-> Str(ts), quote |-> q]
OE(ts, q) == [time_close |-> Str(ts), quote |-> q]
UsdPrice(n) == [USD |-> [price |-> Num(n)]]

\* a "data" field the remote service may send for an endpoint
FullData(endpoint) ==
    CASE endpoint = "/cryptocurrency/quotes/historical" ->
            [symbol |-> "BTC", quotes |-> <<QE(TS1, UsdPrice(100)), QE(TS2, UsdPrice(200))>>]
      [] endpoint = "/cryptocurrency/ohlcv/historical" ->
            [symbol |-> "BTC", quotes |-> <<OE(TS1, UsdPrice(100)), OE(TS2, UsdPrice(200))>>]
      [] OTHER -> [raw |-> endpoint]

\* the "data" fields the remote service may send with a success: the two
\* historical endpoints may also have no quote in the range asked for
ServerData(endpoint) ==
    IF endpoint \in {"/cryptocurrency/quotes/historical", "/cryptocurrency/ohlcv/historical"}
    THEN {FullData(endpoint), [symbol |-> "BTC", quotes |-> <<>>]}
    ELSE {FullData(endpoint)}

\* what one GET may end in: a network-level fault, or a response with a status
\* and a JSON body shaped {status, data}; the body of a failure may or may not
\* carry a data field
Outcomes(endpoint) ==
    {[fault |-> f] : f \in Faults}
    \cup {[status_code |-> StatusOK,
           body |-> [status |-> [error_code |-> 0], data |-> d]] : d \in ServerData(endpoint)}
    \cup {[status_code |-> 429, body |-> [status |-> [error_code |-> 1008]]]}
    \cup {[status_code |-> 500,
           body |-> [status |-> [error_code |-> 500], data |-> FullData(endpoint)]]}

IsFault(o) == DOMAIN o = {"fault"}

----------------------------------------------------------------------------
(* CoinMarketCap.__init__ *)

\* variant: the tier's maximum is taken without the day of margin
resolve_length_no_margin(api_type) ==
    IF api_type \in DOMAIN API_TYPE_MAP
    THEN API_TYPE_MAP[api_type]
    ELSE class_default_historical_data_length

\* the lookback window __init__ resolves for a tier name
resolve_length(api_type) ==
    IF api_type \in DOMAIN API_TYPE_MAP
    THEN API_TYPE_MAP[api_type] - 1
    ELSE class_default_historical_data_length

\* the instance __init__ builds; today1 and today2 are what the two calls of
\* datetime.date.today() return
init_client(api_key, is_sandbox, api_type, default_timeout, today1, today2, tz) ==
    LET length == resolve_length(api_type)
        today_begin == convert_to_day_begin(today1, tz)
        start_date == convert_to_day_begin(date_minus_days(today2, length), tz)
    IN [api_key |-> api_key,
        version |-> "v1",
        default_timeout |-> default_timeout,
        url |-> <<(IF is_sandbox THEN SANDBOX_BASE_URL ELSE PRODUCTION_BASE_URL), "/", "v1">>,
        _session |-> None,
        default_historical_data_length |-> length,
        default_start_date |-> start_date,
        default_end_date |-> today_begin]

NoFrame == [method |-> "none"]

Init ==
    \E api_key \in ApiKeys, is_sandbox \in BOOLEAN, api_type \in ApiTypes,
       today1 \in Todays, tz \in TimeZones :
    \E today2 \in {today1, fromordinal(toordinal(today1) + 1)} :
        /\ self = init_client(api_key, is_sandbox, api_type, DefaultTimeout, today1, today2, tz)
        /\ env = [tz |-> tz, today |-> <<today1, today2>>,
                  api_type |-> api_type, is_sandbox |-> is_sandbox]
        /\ sessions = <<>>
        /\ pc = "idle"
        /\ frame = NoFrame
        /\ attempt = 0
        /\ response = None
        /\ trace = <<>>
        /\ data = None
        /\ result = None
        /\ stdout = <<>>
        /\ calls = 0

----------------------------------------------------------------------------
(* The session property *)

\* the Session object a first access builds
new_session(client) ==
    [headers |-> [Content_Type |-> "application/json", X_CMC_PRO_API_KEY |-> client.api_key]]

\* variant: the test of _session is lost and every access builds a Session
session_rebuilt(client, heap) ==
    <<[ref |-> Len(heap) + 1],
      [client EXCEPT !._session = [ref |-> Len(heap) + 1]],
      IF Len(heap) < 2 THEN Append(heap, new_session(client)) ELSE heap>>

\* the property CoinMarketCap.session: <<the object it returns, the instance
\* afterwards, the Session objects afterwards>>
session(client, heap) ==
    IF client._session = None
    THEN <<[ref |-> Len(heap) + 1],
           [client EXCEPT !._session = [ref |-> Len(heap) + 1]],
           Append(heap, new_session(client))>>
    ELSE <<client._session, client, heap>>

----------------------------------------------------------------------------
(* The endpoint methods: entry *)

\* entering __get_response(endpoint, retry, params) from method
Enter(method, args, endpoint, retry, params, printed) ==
    /\ pc = "idle"
    /\ frame' = [method |-> method, args |-> args,
                 endpoint |-> endpoint, retry |-> retry, params |-> params]
    /\ attempt' = 0
    /\ stdout' = printed
    /\ pc' = "get"
    /\ UNCHANGED <<self, sessions, env, response, trace, data, result, calls>>

get_ticker_list ==
    Enter("get_ticker_list", <<>>, "/cryptocurrency/map", DefaultRetry, None, <<>>)

get_meta_data_from_id ==
    \E ticker_id \in TickerIds :
        Enter("get_meta_data_from_id", <<ticker_id>>, "/cryptocurrency/info", DefaultRetry,
              [id |-> ticker_id], <<>>)

\* the params get_market_quotes_from_id sends
quotes_params(client, ticker_id, time_start, time_end, convert_currency) ==
    [id |-> ticker_id,
     time_start |-> IF time_start = None THEN client.default_start_date ELSE time_start.num,
     time_end |-> IF time_end = None THEN client.default_end_date ELSE time_end.num,
     interval |-> "6h",
     convert |-> convert_currency]

RangeWarning == [print |-> "Time period out of range, check time input and default time point"]

\* what get_market_quotes_from_id prints before the request
quotes_warning(params) ==
    IF params.time_start > params.time_end THEN <<RangeWarning>> ELSE <<>>

\* variant: a start after the end makes the method return before any request
get_market_quotes_from_id_abort ==
    \E ticker_id \in TickerIds, time_start \in TimeArgs, time_end \in TimeArgs,
       convert_currency \in Currencies :
        LET params == quotes_params(self, ticker_id, time_start, time_end, convert_currency)
        IN /\ pc = "idle"
           /\ frame' = [method |-> "get_market_quotes_from_id",
                        args |-> <<ticker_id, time_start, time_end, Str(convert_currency)>>,
                        endpoint |-> "/cryptocurrency/quotes/historical",
                        retry |-> DefaultRetry, params |-> params]
           /\ attempt' = 0
           /\ stdout' = quotes_warning(params)
           /\ pc' = IF params.time_start > params.time_end THEN "done" ELSE "get"
           /\ result' = IF params.time_start > params.time_end THEN Returned(None) ELSE result
           /\ UNCHANGED <<self, sessions, env, response, trace, data, calls>>

get_market_quotes_from_id ==
    \E ticker_id \in TickerIds, time_start \in TimeArgs, time_end \in TimeArgs,
       convert_currency \in Currencies :
        LET params == quotes_params(self, ticker_id, time_start, time_end, convert_currency)
        IN Enter("get_market_quotes_from_id",
                 <<ticker_id, time_start, time_end, Str(convert_currency)>>,
                 "/cryptocurrency/quotes/historical",
                 DefaultRetry, params, quotes_warning(params))

get_ohlcv_from_id ==
    \E ticker_id \in TickerIds, convert_currency \in Currencies :
        Enter("get_ohlcv_from_id", <<ticker_id, convert_currency>>,
              "/cryptocurrency/ohlcv/historical", DefaultRetry,
              [id |-> ticker_id,
               time_start |-> self.default_start_date,
               time_end |-> self.default_end_date,
               interval |-> "1d",
               convert |-> convert_currency],
              <<>>)

\* __get_response called with a retry budget of the caller's choice
get_response ==
    \E retry \in 0..MaxRetry :
        Enter("__get_response", <<retry>>, "/cryptocurrency/map", retry, None, <<>>)

----------------------------------------------------------------------------
(* CoinMarketCap.__get_response *)

\* self.session.get(url, params, timeout) ending in outcome o: the session
\* property is read, the GET is issued on the object it returns
SessionGet(o) ==
    LET got == session(self, sessions)
    IN /\ self' = got[2]
       /\ sessions' = got[3]
       /\ trace' = Append(trace,
                     [ev |-> "get", session |-> got[1],
                      url |-> self.url \o <<frame.endpoint>>,
                      params |-> frame.params,
                      timeout |-> self.default_timeout,
                      outcome |-> o])

\* variant: the fault is caught and the call returns None
Propagate_swallowed(o) ==
    /\ result' = Returned(None)
    /\ pc' = "done"
    /\ UNCHANGED <<env, frame, attempt, response, data, stdout, calls>>

\* a GET that raises: nothing in __get_response or its callers catches it
Propagate(o) ==
    /\ result' = Raised(o.fault)
    /\ pc' = "done"
    /\ UNCHANGED <<env, frame, attempt, response, data, stdout, calls>>

\* lines 54-58: the first GET
FirstGet ==
    /\ pc = "get"
    /\ \E o \in Outcomes(frame.endpoint) :
        /\ SessionGet(o)
        /\ IF IsFault(o) THEN Propagate(o)
           ELSE /\ response' = o
                /\ pc' = "while"
                /\ UNCHANGED <<env, frame, attempt, data, result, stdout, calls>>

\* variant: the loop goes on whatever the status, until the budget is spent
loop_continues_always(resp) == TRUE

\* line 60: the test of the while loop. The code compares by identity
\* (is not 200); CPython keeps one object per small integer, so for the int
\* status of a response the test is the comparison of values.
loop_continues(resp) == resp.status_code # StatusOK

While ==
    /\ pc = "while"
    /\ pc' = IF loop_continues(response) THEN "sleep" ELSE "extract"
    /\ UNCHANGED <<self, sessions, env, frame, attempt, response, trace, data, result, stdout, calls>>

\* line 62: time.sleep(5)
Sleep ==
    /\ pc = "sleep"
    /\ trace' = Append(trace, [ev |-> "sleep", seconds |-> SleepSeconds])
    /\ pc' = "retry"
    /\ UNCHANGED <<self, sessions, env, frame, attempt, response, data, result, stdout, calls>>

\* lines 70-71: the loop is left once attempt exceeds the budget
budget_spent(n, retry) == n > retry

\* lines 63-71: the GET of the loop body, the count and the break
RetryGet ==
    /\ pc = "retry"
    /\ \E o \in Outcomes(frame.endpoint) :
        /\ SessionGet(o)
        /\ IF IsFault(o) THEN Propagate(o)
           ELSE /\ response' = o
                /\ attempt' = attempt + 1
                /\ pc' = IF budget_spent(attempt + 1, frame.retry) THEN "extract" ELSE "while"
                /\ UNCHANGED <<env, frame, data, result, stdout, calls>>

\* variant: the data field is returned whenever the body has one
get_response_data_any_status(resp) ==
    LET response_dict == resp.body
    IN IF "data" \in DOMAIN response_dict
       THEN <<response_dict.data, <<>>>>
       ELSE <<None, <<[print_dict |-> response_dict]>>>>

\* CoinMarketCap.__get_response_data: <<the value returned, what is printed>>
get_response_data(resp) ==
    LET response_dict == resp.body
    IN IF resp.status_code = StatusOK
       THEN <<response_dict.data, <<>>>>
       ELSE <<None, <<[print_dict |-> response_dict]>>>>

\* line 73: return self.__get_response_data(response)
Extract ==
    /\ pc = "extract"
    /\ data' = get_response_data(response)[1]
    /\ stdout' = stdout \o get_response_data(response)[2]
    /\ pc' = "post"
    /\ UNCHANGED <<self, sessions, env, frame, attempt, response, trace, result, calls>>

----------------------------------------------------------------------------
(* The endpoint methods: what they do with the payload *)

endpoint_result(method, payload) ==
    CASE method = "get_market_quotes_from_id" -> parse_quote_data(payload)
      [] method = "get_ohlcv_from_id" -> parse_ohlcv_data(payload)
      [] OTHER -> Returned(payload)

Return ==
    /\ pc = "post"
    /\ result' = endpoint_result(frame.method, data)
    /\ pc' = "done"
    /\ UNCHANGED <<self, sessions, env, frame, attempt, response, trace, data, stdout, calls>>

\* the caller has the outcome; the client is ready for the next call
Finish ==
    /\ pc = "done"
    /\ pc' = "idle"
    /\ frame' = NoFrame
    /\ attempt' = 0
    /\ response' = None
    /\ trace' = <<>>
    /\ data' = None
    /\ result' = None
    /\ stdout' = <<>>
    /\ calls' = IF calls < MaxCalls THEN calls + 1 ELSE calls
    /\ UNCHANGED <<self, sessions, env>>

Next ==
    \/ get_ticker_list
    \/ get_meta_data_from_id
    \/ get_market_quotes_from_id
    \/ get_ohlcv_from_id
    \/ get_response
    \/ FirstGet
    \/ While
    \/ Sleep
    \/ RetryGet
    \/ Extract
    \/ Return
    \/ Finish

Spec == Init /\ [][Next]_vars

----------------------------------------------------------------------------
(* The parsers called on their own: they are static methods *)

InitParse ==
    \E tz \in TimeZones, today \in Todays, method \in {"parse_quote_data", "parse_ohlcv_data"} :
    \E data_dict \in IF method = "parse_quote_data" THEN QuotePayloads ELSE OhlcvPayloads :
        /\ self = init_client("KEY", TRUE, "standard", DefaultTimeout, today, today, tz)
        /\ env = [tz |-> tz, today |-> <<today, today>>,
                  api_type |-> "standard", is_sandbox |-> TRUE]
        /\ sessions = <<>>
        /\ pc = "parse"
        /\ frame = [method |-> method, args |-> <<data_dict>>]
        /\ attempt = 0
        /\ response = None
        /\ trace = <<>>
        /\ data = None
        /\ result = None
        /\ stdout = <<>>
        /\ calls = 0

parse_quote_data_call ==
    /\ pc = "parse"
    /\ frame.method = "parse_quote_data"
    /\ result' = parse_quote_data(frame.args[1])
    /\ pc' = "done"
    /\ UNCHANGED <<self, sessions, env, frame, attempt, response, trace, data, stdout, calls>>

parse_ohlcv_data_call ==
    /\ pc = "parse"
    /\ frame.method = "parse_ohlcv_data"
    /\ result' = parse_ohlcv_data(frame.args[1])
    /\ pc' = "done"
    /\ UNCHANGED <<self, sessions, env, frame, attempt, response, trace, data, stdout, calls>>

NextParse ==
    \/ parse_quote_data_call
    \/ parse_ohlcv_data_call

SpecParse == InitParse /\ [][NextParse]_vars

----------------------------------------------------------------------------
(* Properties *)

\* the positions of the GETs in the record of the call in progress
GetsOf(tr) == {i \in 1..Len(tr) : tr[i].ev = "get"}
IsResponse(o) == ~IsFault(o)
\* the outcome of the last GET issued so far
LastOutcome(tr) == tr[CHOOSE i \in GetsOf(tr) : \A j \in GetsOf(tr) : j <= i].outcome
\* __get_response has returned to the endpoint method
RoutineReturned == pc = "post" \/ (pc = "done" /\ GetsOf(trace) # {} /\ IsResponse(LastOutcome(trace)))
\* every attempt of the call ended with a status other than 200
AllAttemptsFailed ==
    /\ GetsOf(trace) # {}
    /\ \A i \in GetsOf(trace) :
         IsResponse(trace[i].outcome) /\ trace[i].outcome.status_code # 200

\* C1: a call of __get_response with retry budget r issues at most 1 + r GETs,
\* whatever the statuses of the responses.
C1_AtMostOnePlusRetryGets ==
    pc # "idle" => Cardinality(GetsOf(trace)) <= 1 + frame.retry

\* C2: the value __get_response returns is decided by the last response alone:
\* the data field of a 200, and for any other status None, with the decoded
\* body printed and nothing raised.
C2_ReturnFollowsLastResponse ==
    RoutineReturned =>
        LET last == LastOutcome(trace)
        IN /\ last.status_code = 200 =>
                /\ data = last.body.data
                /\ data # None
                /\ \A i \in 1..Len(stdout) : stdout[i] # [print_dict |-> last.body]
           /\ last.status_code # 200 =>
                /\ data = None
                /\ stdout # <<>>
                /\ stdout[Len(stdout)] = [print_dict |-> last.body]
           /\ pc = "post" => result = None

\* a failure whose body carries a data field has been turned into None
C2_Witness ==
    /\ pc = "post"
    /\ LastOutcome(trace).status_code = 500
    /\ "data" \in DOMAIN LastOutcome(trace).body
    /\ data = None
    /\ Cardinality(GetsOf(trace)) >= 2

\* C3, in every state: the Session object is created at most once. The instance starts without
\* one and without any request; the first access creates it with the JSON
\* content type and the API key as headers; every GET of every call uses that
\* one object, which is never replaced or reset.
C3_Session ==
    /\ Len(sessions) <= 1
    /\ self._session = None => (sessions = <<>> /\ trace = <<>> /\ calls = 0)
    /\ self._session # None =>
        /\ self._session = [ref |-> 1]
        /\ Len(sessions) = 1
        /\ sessions[1].headers =
             [Content_Type |-> "application/json", X_CMC_PRO_API_KEY |-> self.api_key]
    /\ \A i \in GetsOf(trace) : trace[i].session = [ref |-> 1] /\ self._session = [ref |-> 1]

\* C3, in full: the instance starts without a session and without a request,
\* the state property above always holds, and no step replaces or resets a
\* session once it exists.
C3_SessionCreatedOnce ==
    /\ (self._session = None /\ sessions = <<>> /\ trace = <<>>)
    /\ []C3_Session
    /\ [][self._session # None => (self'._session = self._session /\ sessions' = sessions)]_vars

\* a GET of a later call, after a call that ended in a network error or in a
\* failure status, on the session the first call created
C3_Witness ==
    /\ calls >= 1
    /\ Cardinality(GetsOf(trace)) >= 2
    /\ \A i \in GetsOf(trace) : trace[i].session = [ref |-> 1]
    /\ Len(sessions) = 1

----------------------------------------------------------------------------

IsTable(v) == "columns" \in DOMAIN v \/ "result_df" \in DOMAIN v

\* C4: when every attempt of a call ends with a status other than 200,
\* get_ticker_list and get_meta_data_from_id return None without raising,
\* get_market_quotes_from_id and get_ohlcv_from_id end with the error of their
\* parser, and no endpoint method returns a table after a failed response.
C4_FailedCallOutcome ==
    (pc = "done" /\ frame.method # "__get_response") =>
        /\ AllAttemptsFailed =>
            /\ frame.method \in {"get_ticker_list", "get_meta_data_from_id"}
                  => result = Returned(None)
            /\ frame.method \in {"get_market_quotes_from_id", "get_ohlcv_from_id"}
                  => IsRaised(result) /\ result.raised \notin Faults
        /\ (IsReturned(result) /\ IsTable(result.returned)) =>
                LastOutcome(trace).status_code = 200

C4_Witness ==
    /\ pc = "done"
    /\ frame.method = "get_ohlcv_from_id"
    /\ AllAttemptsFailed
    /\ result = Raised("TypeError")

\* C5: the lookback window is 29 days for "standard", 364 for "professional",
\* and the default of 29 for any other tier name.
C5_LookbackWindow ==
    self.default_historical_data_length =
        (CASE env.api_type = "standard" -> 29
           [] env.api_type = "professional" -> 364
           [] OTHER -> 29)

C5_Witness ==
    /\ env.api_type = "professional"
    /\ self.default_historical_data_length = 364
    /\ calls >= 1

\* the local calendar day and the second of that day of an instant
LocalDay(t) == (t + UtcOffsetAt(env.tz, t)) \div SecondsPerDay
LocalSecond(t) == (t + UtcOffsetAt(env.tz, t)) % SecondsPerDay

\* C6: the default start and end are both local midnights, the end is the
\* midnight of the day of construction, and the start is exactly the lookback
\* window, in calendar days, before the end; no call changes them.
C6_DefaultRange ==
    /\ LocalSecond(self.default_start_date) = 0
    /\ LocalSecond(self.default_end_date) = 0
    /\ LocalDay(self.default_end_date) = toordinal(env.today[1])
    /\ LocalDay(self.default_end_date) - LocalDay(self.default_start_date)
         = self.default_historical_data_length

----------------------------------------------------------------------------

\* YYYY-MM-DD HH of an ISO 8601 string
HourOf(ts) == SubSeq(ts, 1, 10) \o <<" ">> \o SubSeq(ts, 12, 13)

\* C7: for a payload with a symbol and N >= 0 entries, each with a "USD"
\* mapping, parse_quote_data returns the symbol and a table of N rows, row i
\* carrying the values of entry i's "USD" mapping and entry i's timestamp at
\* hour precision.
C7_QuoteTable ==
    (/\ pc = "done"
     /\ frame.method = "parse_quote_data"
     /\ frame.args[1] # None
     /\ \A i \in 1..Len(frame.args[1].quotes) : "USD" \in DOMAIN frame.args[1].quotes[i].quote)
    =>
    LET quotes == frame.args[1].quotes
    IN /\ IsReturned(result)
       /\ result.returned.symbol = frame.args[1].symbol
       /\ Len(result.returned.result_df.rows) = Len(quotes)
       /\ \A i \in 1..Len(quotes) :
            LET row == result.returned.result_df.rows[i]
                usd == quotes[i].quote.USD
            IN /\ row["timestamp"] = Str(HourOf(quotes[i].timestamp.str))
               /\ \A k \in DOMAIN usd \ {"timestamp"} : row[k] = usd[k]

----------------------------------------------------------------------------

\* the start and the end a call of get_market_quotes_from_id is to use
EffectiveStart == IF frame.args[2] = None THEN self.default_start_date ELSE frame.args[2].num
EffectiveEnd == IF frame.args[3] = None THEN self.default_end_date ELSE frame.args[3].num
OutOfOrderCall ==
    /\ pc \notin {"idle", "parse"}
    /\ frame.method = "get_market_quotes_from_id"
    /\ EffectiveStart > EffectiveEnd

\* C8: a call of get_market_quotes_from_id whose start is greater than its end
\* prints a warning and goes on: it issues its GETs with exactly that start and
\* end, under the same retry budget and through the same steps as any call.
C8_OutOfOrderRange ==
    OutOfOrderCall =>
        /\ stdout # <<>> /\ stdout[1] = RangeWarning
        /\ frame.retry = 1
        /\ pc # "get" => (trace # <<>> /\ trace[1].ev = "get")
        /\ \A i \in GetsOf(trace) :
             /\ trace[i].params.time_start = EffectiveStart
             /\ trace[i].params.time_end = EffectiveEnd
        /\ pc = "done" =>
             \/ IsFault(LastOutcome(trace)) /\ result = Raised(LastOutcome(trace).fault)
             \/ IsResponse(LastOutcome(trace))
                  /\ result = parse_quote_data(
                                IF LastOutcome(trace).status_code = 200
                                THEN LastOutcome(trace).body.data ELSE None)

C8_Witness ==
    /\ OutOfOrderCall
    /\ pc = "done"
    /\ IsReturned(result)
    /\ Cardinality(GetsOf(trace)) = 3
    /\ frame.args[2] = None

\* C9, in every state: a network-level fault of any GET of a call ends the call at once with
\* that error: no GET and no sleep follow it, no payload is returned, and the
\* configuration and the session of the client stay as they are.
C9_FaultState ==
    \A i \in GetsOf(trace) :
        IsFault(trace[i].outcome) =>
            /\ i = Len(trace)
            /\ pc = "done"
            /\ result = Raised(trace[i].outcome.fault)
            /\ data = None
            /\ self._session = trace[i].session

\* C9, in full: the state property above always holds, and no step changes
\* the configuration of the client or replaces a session it already has.
C9_FaultPropagates ==
    /\ []C9_FaultState
    /\ [][/\ [self' EXCEPT !._session = None] = [self EXCEPT !._session = None]
          /\ self._session # None => self'._session = self._session]_vars

\* a fault of a retry, in a call after the first
C9_Witness ==
    /\ pc = "done"
    /\ Len(trace) = 3
    /\ IsFault(trace[3].outcome)
    /\ result = Raised("Timeout")
    /\ calls >= 1

\* C10: no GET follows a response with status 200, whose data the call
\* returns; every GET but the first comes right after exactly one sleep of 5
\* seconds; a call whose first response is 200 issues one GET and never sleeps.
C10_StopsAtFirst200 ==
    /\ \A i \in GetsOf(trace) :
         (IsResponse(trace[i].outcome) /\ trace[i].outcome.status_code = 200) =>
            /\ i = Len(trace)
            /\ pc \in {"post", "done"} => data = trace[i].outcome.body.data
    /\ \A i \in 1..Len(trace) :
         /\ i = 1 => trace[i].ev = "get"
         /\ (i > 1 /\ trace[i].ev = "get") =>
                trace[i - 1] = [ev |-> "sleep", seconds |-> 5] /\ trace[i - 2].ev = "get"
         /\ trace[i].ev = "sleep" => trace[i - 1].ev = "get"
    /\ pc = "retry" => (trace # <<>> /\ trace[Len(trace)].ev = "sleep")
    /\ pc \in {"while", "extract", "post", "sleep"} => (trace # <<>> /\ IsResponse(LastOutcome(trace)))

\* a call that succeeds on its second retry
C10_Witness ==
    /\ pc = "done"
    /\ Len(trace) = 5
    /\ IsResponse(trace[5].outcome)
    /\ trace[5].outcome.status_code = 200
    /\ IsReturned(result)

====
